---- MODULE Spec2Model ----
(***************************************************************************)
(* Model of baked-spa-rs (src/src/lib.rs): SpaRouter, an axum router that  *)
(* serves a single-page application from a rust-embed asset set.           *)
(*                                                                         *)
(* Strings are sequences of tokens: "/" and "." are tokens of their own,   *)
(* every other token is a run of ordinary characters, so that              *)
(* "/ui/script.js" is <<"/", "ui", "/", "script", ".", "js">>.             *)
(* All requests are GET requests, as in the tests of the crate.            *)
(***************************************************************************)
EXTENDS Naturals, Sequences, FiniteSets, TLC

VARIABLES
    path,      \* SpaRouter.path, the mount path given to SpaRouter::new
    assets,    \* the embedded asset set A: relative path -> file
    router,    \* the merged Router: its routes and its fallback service
    reqs       \* the requests in flight, one record per connection

vars == <<path, assets, router, reqs>>

\* Number of requests that can be in flight at the same time.
MaxInflight == 2

Conns == 1..MaxInflight

---------------------------------------------------------------------------
(* Strings *)

SLASH == "/"
DOT == "."

\* static INDEX_PATH: &str = "index.html"
INDEX_PATH == <<"index", DOT, "html">>

\* str::trim_start_matches('/'): drops every leading '/'
RECURSIVE TrimStartMatches(_)
TrimStartMatches(s) ==
    IF s # <<>> /\ Head(s) = SLASH THEN TrimStartMatches(Tail(s)) ELSE s

\* str::split('/'): the pieces between the separators, empty ones included
RECURSIVE Split(_)
Split(s) ==
    IF \A i \in 1..Len(s) : s[i] # SLASH
    THEN <<s>>
    ELSE LET i == CHOOSE k \in 1..Len(s) :
                     s[k] = SLASH /\ \A j \in 1..(k - 1) : s[j] # SLASH
         IN  <<SubSeq(s, 1, i - 1)>> \o Split(SubSeq(s, i + 1, Len(s)))

\* Option<&OsStr>: no value, or the one value
NoName == <<>>
NoExt == <<>>

\* std::path::Path::file_name: the last component of the path when it is a
\* normal one.  Components are the non-empty pieces between separators; a
\* "." piece counts only as the very first piece of the path, and a path
\* whose last component is "." or ".." (or which has none) has no file name.
FileName(p) ==
    LET pieces == Split(p)
        kept == {i \in 1..Len(pieces) :
                     pieces[i] # <<>> /\ (pieces[i] # <<DOT>> \/ i = 1)}
    IN  IF kept = {} THEN NoName
        ELSE LET last == pieces[CHOOSE i \in kept : \A j \in kept : j <= i]
             IN  IF last = <<DOT>> \/ last = <<DOT, DOT>>
                 THEN NoName
                 ELSE <<last>>

\* std::path::Path::extension: what follows the last '.' of the file name,
\* none when there is no file name, the name has no '.' or only a leading one
Extension(p) ==
    IF FileName(p) = NoName THEN NoExt
    ELSE LET f == FileName(p)[1]
             dots == {i \in 1..Len(f) : f[i] = DOT}
         IN  IF dots = {} \/ dots = {1} THEN NoExt
             ELSE LET last == CHOOSE i \in dots : \A j \in dots : j <= i
                  IN  <<SubSeq(f, last + 1, Len(f))>>

\* mime_guess::from_path(path).first_or_octet_stream()
MimeGuess(p) ==
    LET e == Extension(p)
    IN  IF e = << <<"html">> >> THEN "text/html"
        ELSE IF e = << <<"js">> >> THEN "application/javascript"
        ELSE "application/octet-stream"

---------------------------------------------------------------------------
(* The embedded asset set (rust-embed) *)

\* The files of the fixture folders (fixture/: index.html and
\* assets/script.js; fixture-coordinator/: index.html and script.js), and a
\* file without an extension.
AssetNames ==
    { INDEX_PATH,
      <<"script", DOT, "js">>,
      <<"assets", SLASH, "script", DOT, "js">>,
      <<"LICENSE">> }

\* The bytes of each file, as the tests read them.
FileData(name) ==
    IF name = INDEX_PATH THEN "<h1>Hello, World!</h1>\n"
    ELSE IF name = <<"script", DOT, "js">> THEN "console.log('hi')\n"
    ELSE IF name = <<"assets", SLASH, "script", DOT, "js">> THEN "console.log('hi')\n"
    ELSE "MIT\n"

\* sha2::Sha256 digest of the bytes, and base64::encode of a digest
Sha256(data) == <<"sha256", data>>
Base64(digest) == <<"base64", digest>>

\* rust_embed::EmbeddedFile { data, metadata }, built when the crate is compiled
EmbeddedFile(name) == [data |-> FileData(name), sha256_hash |-> Sha256(FileData(name))]

None == [none |-> TRUE]

\* A::get(path) -> Option<EmbeddedFile>
Get(a, p) == IF p \in DOMAIN a THEN a[p] ELSE None

---------------------------------------------------------------------------
(* Responses *)

NoHeader == "(absent)"

\* fn not_found() -> Response
not_found ==
    [status |-> 404, content_type |-> "text/plain; charset=utf-8",
     etag |-> NoHeader, body |-> "Not found", gets |-> <<>>]

\* serve_asset looking up the index document first.
serve_asset_index_first(a, p) ==
    LET first == Get(a, INDEX_PATH)
        index == IF first # None THEN first ELSE Get(a, p)
    IN  IF index # None
        THEN [status |-> 200, content_type |-> MimeGuess(p),
              etag |-> Base64(index.sha256_hash), body |-> index.data,
              gets |-> IF first # None THEN <<INDEX_PATH>> ELSE <<INDEX_PATH, p>>]
        ELSE [not_found EXCEPT !.gets = <<INDEX_PATH, p>>]

\* serve_asset without the retry: a miss is a 404.
serve_asset_strict(a, p) ==
    LET index == Get(a, p)
    IN  IF index # None
        THEN [status |-> 200, content_type |-> MimeGuess(p),
              etag |-> Base64(index.sha256_hash), body |-> index.data,
              gets |-> <<p>>]
        ELSE [not_found EXCEPT !.gets = <<p>>]

\* serve_asset with `or` for `or_else`: the index document is always fetched.
serve_asset_eager_or(a, p) ==
    LET first == Get(a, p)
        index == IF first # None THEN first ELSE Get(a, INDEX_PATH)
    IN  IF index # None
        THEN [status |-> 200, content_type |-> MimeGuess(p),
              etag |-> Base64(index.sha256_hash), body |-> index.data,
              gets |-> <<p, INDEX_PATH>>]
        ELSE [not_found EXCEPT !.gets = <<p, INDEX_PATH>>]

\* async fn serve_asset<A>(path) -> Response.  gets records the calls of
\* A::get that were made, in order.
serve_asset(a, p) ==
    LET first == Get(a, p)
        index == IF first # None THEN first ELSE Get(a, INDEX_PATH)
        gets  == IF first # None THEN <<p>> ELSE <<p, INDEX_PATH>>
    IN  IF index # None
        THEN [status |-> 200,
              content_type |-> MimeGuess(p),
              etag |-> Base64(index.sha256_hash),
              body |-> index.data,
              gets |-> gets]
        ELSE [not_found EXCEPT !.gets = gets]

\* async fn serve_index<A>() -> Response
serve_index(a) == serve_asset(a, INDEX_PATH)

\* assets_handler answering a miss itself with 404.
assets_handler_strict(a, uri) ==
    IF uri = <<SLASH>>
    THEN serve_index(a)
    ELSE IF Get(a, TrimStartMatches(uri)) = None
         THEN [not_found EXCEPT !.gets = <<TrimStartMatches(uri)>>]
         ELSE serve_asset(a, TrimStartMatches(uri))

\* assets_handler without the case of the root path.
assets_handler_no_root(a, uri) == serve_asset(a, TrimStartMatches(uri))

\* async fn assets_handler<A>(uri) -> Response
assets_handler(a, uri) ==
    IF uri = <<SLASH>>
    THEN serve_index(a)
    ELSE serve_asset(a, TrimStartMatches(uri))

---------------------------------------------------------------------------
(* The router (axum 0.6) *)

NoReply == [status |-> 0, content_type |-> NoHeader, etag |-> NoHeader,
            body |-> "", gets |-> <<>>]

\* A handler returning a string or a Redirect, as the tests register them.
Reply(status, body) ==
    [status |-> status,
     content_type |-> IF body = "" THEN NoHeader ELSE "text/plain; charset=utf-8",
     etag |-> NoHeader, body |-> body, gets |-> <<>>]

\* Router::route(p, get(handler)): one literal route
Route(p, reply) ==
    [pattern |-> p, catch_all |-> FALSE, kind |-> "route", prefix |-> <<>>, reply |-> reply]

\* Router::nest_service(prefix, svc): the routes prefix/*tail, prefix and
\* prefix/, all three to the service behind StripPrefix
NestService(prefix) ==
    LET ep(pat, all) == [pattern |-> pat, catch_all |-> all, kind |-> "nest",
                         prefix |-> prefix, reply |-> NoReply]
        dir == IF prefix[Len(prefix)] = SLASH THEN prefix ELSE prefix \o <<SLASH>>
    IN  {ep(dir, TRUE), ep(prefix, FALSE), ep(dir, FALSE)}

\* The router with assets_handler as its fallback service too.
RouterFrom_fallback_assets(spaPath) ==
    [routes |-> NestService(spaPath), fallback |-> "assets_handler"]

\* impl From<SpaRouter<A, B, T, S>> for Router<S, B>
RouterFrom(spaPath) ==
    [routes |-> NestService(spaPath), fallback |-> "serve_index"]

\* Router::merge: the routes of both; the fallback that was set, if any
Merge(r1, r2) ==
    [routes |-> r1.routes \cup r2.routes,
     fallback |-> IF r2.fallback # "default" THEN r2.fallback ELSE r1.fallback]

\* Inserting the same pattern twice panics when the router is built.
Overlap(rs1, rs2) ==
    \E x \in rs1, y \in rs2 : x.pattern = y.pattern /\ x.catch_all = y.catch_all

IsPrefix(p, s) == Len(p) <= Len(s) /\ SubSeq(s, 1, Len(p)) = p

\* matchit: a literal route matches the whole path, a catch-all route a
\* path with a non-empty tail after its prefix
Matches(r, uri) ==
    IF r.catch_all
    THEN IsPrefix(r.pattern, uri) /\ Len(uri) > Len(r.pattern)
    ELSE r.pattern = uri

NoRoute == [pattern |-> <<>>, catch_all |-> FALSE, kind |-> "fallback",
            prefix |-> <<>>, reply |-> NoReply]

\* Route matching that tries the catch-all routes first.
MatchRoute_catch_all_first(rt, uri) ==
    LET lits == {r \in rt.routes : ~r.catch_all /\ Matches(r, uri)}
        alls == {r \in rt.routes : r.catch_all /\ Matches(r, uri)}
    IN  IF alls # {}
        THEN CHOOSE r \in alls : \A q \in alls : Len(q.pattern) <= Len(r.pattern)
        ELSE IF lits # {} THEN CHOOSE r \in lits : TRUE
        ELSE NoRoute

\* matchit: literal routes are tried before catch-all routes; the fallback
\* service takes what no route matches
MatchRoute(rt, uri) ==
    LET lits == {r \in rt.routes : ~r.catch_all /\ Matches(r, uri)}
        alls == {r \in rt.routes : r.catch_all /\ Matches(r, uri)}
    IN  IF lits # {} THEN CHOOSE r \in lits : TRUE
        ELSE IF alls # {}
        THEN CHOOSE r \in alls : \A q \in alls : Len(q.pattern) <= Len(r.pattern)
        ELSE NoRoute

\* axum::routing::strip_prefix: segments of the path and of the prefix are
\* compared pairwise; n counts what the matched prefix covers.  The routes
\* of NestService only pass paths that the prefix matches.
RECURSIVE PrefixLength(_, _, _, _)
PrefixLength(ps, qs, i, n) ==
    IF i > Len(ps) /\ i > Len(qs) THEN n
    ELSE IF i > Len(ps) THEN n + 1
    ELSE IF i > Len(qs) THEN n + 1
    ELSE IF ps[i] = qs[i] THEN PrefixLength(ps, qs, i + 1, n + 1 + Len(ps[i]))
    ELSE n + 1

StripPrefix(uri, prefix) ==
    LET n == PrefixLength(Split(Tail(uri)), Split(Tail(prefix)), 1, 0)
        after == SubSeq(uri, n + 1, Len(uri))
    IN  IF after # <<>> /\ Head(after) = SLASH THEN after ELSE <<SLASH>> \o after

---------------------------------------------------------------------------
(* The applications *)

\* SpaRouter::new(path) of the tests: "/" and "/ui"
MountPaths == { <<SLASH>>, <<SLASH, "ui">> }

\* Routes the application registers itself before merging the SpaRouter.
ExternalRoutes ==
    { Route(<<SLASH, "api">>, Reply(200, "OK")),
      Route(<<SLASH>>, Reply(308, "")) }

\* Request paths.
Uris ==
    { <<SLASH>>,
      <<SLASH, "ui">>,
      <<SLASH, "ui", SLASH>>,
      <<SLASH, "ui", SLASH, "script", DOT, "js">>,
      <<SLASH, "ui", SLASH, "script", DOT, "js", SLASH, DOT>>,
      <<SLASH, "ui", SLASH, SLASH, SLASH, "script", DOT, "js">>,
      <<SLASH, "ui", SLASH, "LICENSE">>,
      <<SLASH, "ui", SLASH, "doesnt_exist">>,
      <<SLASH, "ui", SLASH, "missing", DOT, "js">>,
      <<SLASH, "script", DOT, "js">>,
      <<SLASH, "assets", SLASH, "script", DOT, "js">>,
      <<SLASH, "assets", SLASH, "doesnt_exist">>,
      <<SLASH, "some", SLASH, "random", SLASH, "path">>,
      <<SLASH, "api">> }

Idle == [pc |-> "idle", uri |-> <<>>, inner |-> <<>>, route |-> NoRoute, resp |-> NoReply]

Init ==
    /\ path \in MountPaths
    /\ \E names \in SUBSET AssetNames :
           assets = [n \in names |-> EmbeddedFile(n)]
    /\ \E ext \in SUBSET ExternalRoutes :
           /\ ~Overlap(ext, NestService(path))
           /\ router = Merge([routes |-> ext, fallback |-> "default"], RouterFrom(path))
    /\ reqs = [c \in Conns |-> Idle]

\* A request arrives and the router picks the service that answers it;
\* a nested service sees the path with the prefix stripped.
Receive(c, uri) ==
    /\ reqs[c].pc = "idle"
    /\ LET r == MatchRoute(router, uri)
       IN  reqs' = [reqs EXCEPT ![c] =
               [pc    |-> IF r.kind = "nest" THEN "assets_handler"
                          ELSE IF r.kind = "route" THEN "route"
                          ELSE router.fallback,
                uri   |-> uri,
                inner |-> IF r.kind = "nest" THEN StripPrefix(uri, r.prefix) ELSE uri,
                route |-> r,
                resp  |-> NoReply]]
    /\ UNCHANGED <<path, assets, router>>

\* get_service(assets_handler::<A>.into_service())
AssetsHandler(c) ==
    /\ reqs[c].pc = "assets_handler"
    /\ reqs' = [reqs EXCEPT ![c].pc = "done",
                            ![c].resp = assets_handler(assets, reqs[c].inner)]
    /\ UNCHANGED <<path, assets, router>>

\* get_service(serve_index::<A>.into_service()), the fallback service
ServeIndex(c) ==
    /\ reqs[c].pc = "serve_index"
    /\ reqs' = [reqs EXCEPT ![c].pc = "done", ![c].resp = serve_index(assets)]
    /\ UNCHANGED <<path, assets, router>>

\* A handler of the application itself.
ExternalHandler(c) ==
    /\ reqs[c].pc = "route"
    /\ reqs' = [reqs EXCEPT ![c].pc = "done", ![c].resp = reqs[c].route.reply]
    /\ UNCHANGED <<path, assets, router>>

\* The response is sent and the request is over.
Deliver(c) ==
    /\ reqs[c].pc = "done"
    /\ reqs' = [reqs EXCEPT ![c] = Idle]
    /\ UNCHANGED <<path, assets, router>>

Next ==
    \E c \in Conns :
        \/ \E uri \in Uris : Receive(c, uri)
        \/ AssetsHandler(c)
        \/ ServeIndex(c)
        \/ ExternalHandler(c)
        \/ Deliver(c)

Spec == Init /\ [][Next]_vars

---------------------------------------------------------------------------
(* Vocabulary of the properties *)

Done(c) == reqs[c].pc = "done"

\* The request was answered by the service mounted at the SpaRouter's path.
Mounted(c) == Done(c) /\ reqs[c].route.kind = "nest"

\* The request was answered by the router's fallback service.
FellBack(c) == Done(c) /\ reqs[c].route.kind = "fallback"

\* The request was answered by a route of the application itself.
External(c) == Done(c) /\ reqs[c].route.kind = "route"

\* The path below the mount with its leading separators removed.
Relative(c) == TrimStartMatches(reqs[c].inner)

\* The path the resolver is asked for: the index path at the root of the
\* mount and on the fallback route, the relative path otherwise.
Requested(c) ==
    IF FellBack(c) \/ reqs[c].inner = <<SLASH>> THEN INDEX_PATH ELSE Relative(c)

Present(p) == p \in DOMAIN assets
HasIndex == Present(INDEX_PATH)

IndexBytes == "<h1>Hello, World!</h1>\n"
IndexETag == <<"base64", <<"sha256", IndexBytes>>>>

\* The content type that goes with the extension of each embedded file.
TypeOf(p) ==
    IF p[Len(p)] = "html" /\ p[Len(p) - 1] = DOT THEN "text/html"
    ELSE IF p[Len(p)] = "js" /\ p[Len(p) - 1] = DOT THEN "application/javascript"
    ELSE "application/octet-stream"

\* The request is for the mount path itself, with or without trailing slash.
AtMountRoot(u) ==
    \/ u = path
    \/ path[Len(path)] # SLASH /\ u = path \o <<SLASH>>

\* The request is for the mount path or for something below it.
UnderMount(u) ==
    \/ AtMountRoot(u)
    \/ IsPrefix(IF path[Len(path)] = SLASH THEN path ELSE path \o <<SLASH>>, u)

\* The routes the application registered itself.
OwnRoutes == {r \in router.routes : r.kind = "route"}

ServesIndex(r) ==
    /\ r.status = 200
    /\ r.etag = IndexETag
    /\ r.body = IndexBytes

IsNotFound(r) ==
    /\ r.status = 404
    /\ r.body = "Not found"
    /\ r.etag = NoHeader

---------------------------------------------------------------------------
(* Properties *)

\* C1: a request under the mount for "/" + p, p an embedded file, is
\* answered 200 with an ETag, the content type of p's extension
\* (application/octet-stream when unknown) and exactly the bytes of p,
\* which are not those of the index document unless p is the index document.
C1_PresentAssetServed ==
    \A c \in Conns : \A p \in DOMAIN assets :
        (Mounted(c) /\ reqs[c].inner = <<SLASH>> \o p) =>
            /\ reqs[c].resp.status = 200
            /\ reqs[c].resp.etag # NoHeader
            /\ reqs[c].resp.etag = <<"base64", assets[p].sha256_hash>>
            /\ reqs[c].resp.content_type = TypeOf(p)
            /\ reqs[c].resp.body = assets[p].data
            /\ (p # INDEX_PATH => reqs[c].resp.body # IndexBytes)

C1_Witness ==
    \E c \in Conns : \E p \in DOMAIN assets :
        /\ Mounted(c) /\ reqs[c].inner = <<SLASH>> \o p
        /\ p = <<"LICENSE">> /\ HasIndex
        /\ reqs[c].resp.content_type = "application/octet-stream"

\* C2: a request under the mount for a path that is not embedded, of any
\* shape, is answered 200 with the bytes and the ETag of the index document
\* when the index document is embedded.
C2_AbsentFallsBackToIndex ==
    \A c \in Conns :
        (Mounted(c) /\ ~Present(Relative(c)) /\ HasIndex) =>
            ServesIndex(reqs[c].resp)

C2_Witness ==
    \E c \in Conns :
        /\ Mounted(c) /\ ~Present(Relative(c)) /\ HasIndex
        /\ reqs[c].uri = <<SLASH, "some", SLASH, "random", SLASH, "path">>
        /\ reqs[c].resp.status = 200

\* C3: the index document served for a path that is not embedded carries the
\* content type of the index document, text/html, whatever the extension of
\* the requested path.
C3_FallbackIsHtml ==
    \A c \in Conns :
        (Mounted(c) /\ ~Present(Relative(c)) /\ HasIndex) =>
            reqs[c].resp.content_type = "text/html"

\* C4: the resolver answers 404 exactly when neither the requested path nor
\* index.html is embedded, then with the body "Not found" and no ETag; a miss
\* is followed by one lookup of index.html, a hit by none.
C4_NotFoundIffBothAbsent ==
    \A c \in Conns :
        (Mounted(c) \/ FellBack(c)) =>
            /\ reqs[c].resp.status = 404 <=> (~Present(Requested(c)) /\ ~HasIndex)
            /\ reqs[c].resp.status = 404 => IsNotFound(reqs[c].resp)
            /\ reqs[c].resp.status # 404 => reqs[c].resp.status = 200
            /\ Present(Requested(c)) => reqs[c].resp.gets = <<Requested(c)>>
            /\ ~Present(Requested(c)) => reqs[c].resp.gets = <<Requested(c), INDEX_PATH>>

C4_Witness ==
    \E c \in Conns :
        /\ Mounted(c) /\ ~Present(Requested(c)) /\ ~HasIndex
        /\ Requested(c) # INDEX_PATH
        /\ IsNotFound(reqs[c].resp)
        /\ Len(reqs[c].resp.gets) = 2

AssetsMiss == <<SLASH, "assets", SLASH, "doesnt_exist">>

\* C5 as claimed: a request into the assets sub-path for an unknown
\* sub-resource is answered 404 and not with the index document.
C5_AssetsMissIs404 ==
    \A c \in Conns :
        (/\ Mounted(c) /\ reqs[c].uri = AssetsMiss
         /\ HasIndex /\ Present(<<"assets", SLASH, "script", DOT, "js">>)) =>
            /\ reqs[c].resp.status = 404
            /\ reqs[c].resp.body # IndexBytes

\* C5 as amended: a request into the assets sub-path for an unknown
\* sub-resource is answered 200 with the bytes and the ETag of the index
\* document when index.html is embedded, and 404 only when it is not; the
\* mounted service falls back to the index document as the fallback route does.
C5_AssetsMissServesIndex ==
    \A c \in Conns :
        (Done(c) /\ reqs[c].uri = AssetsMiss) =>
            /\ Mounted(c) \/ FellBack(c)
            /\ HasIndex => ServesIndex(reqs[c].resp)
            /\ ~HasIndex => IsNotFound(reqs[c].resp)

C5_Witness ==
    \E c \in Conns :
        /\ Mounted(c) /\ reqs[c].uri = AssetsMiss
        /\ HasIndex /\ Present(<<"assets", SLASH, "script", DOT, "js">>)
        /\ reqs[c].resp.status = 200

\* C7: a request whose path is a route of the application gets that route's
\* response, at any mount path; the resolver does not answer it.
C7_ExternalRoutesWin ==
    \A c \in Conns : \A r \in OwnRoutes :
        (Done(c) /\ reqs[c].uri = r.pattern) =>
            /\ External(c)
            /\ reqs[c].resp = r.reply

C7_Witness ==
    \E c \in Conns :
        /\ External(c) /\ path = <<SLASH>>
        /\ reqs[c].uri = <<SLASH, "api">>
        /\ reqs[c].resp.body = "OK"

\* C8: a request for the mount path, with or without trailing slash, is
\* answered 200 with an ETag, Content-Type text/html and the bytes of the
\* index document when index.html is embedded.
C8_MountRootServesIndex ==
    \A c \in Conns :
        (Done(c) /\ AtMountRoot(reqs[c].uri) /\ HasIndex) =>
            /\ Mounted(c)
            /\ ServesIndex(reqs[c].resp)
            /\ reqs[c].resp.content_type = "text/html"

C8_Witness ==
    \E c, d \in Conns :
        /\ Mounted(c) /\ Mounted(d) /\ HasIndex
        /\ reqs[c].uri = <<SLASH, "ui">> /\ reqs[d].uri = <<SLASH, "ui", SLASH>>
        /\ path = <<SLASH, "ui">>
        /\ reqs[c].resp.status = 200

\* C9: the response to a request for the index path and the response to a
\* request for a path that is not embedded are the same in status,
\* Content-Type, ETag and body.
C9_IndexEqualsFallback ==
    \A c, d \in Conns :
        (/\ HasIndex
         /\ (Mounted(c) \/ FellBack(c)) /\ Requested(c) = INDEX_PATH
         /\ Mounted(d) /\ ~Present(Requested(d))) =>
            /\ reqs[c].resp.status = reqs[d].resp.status
            /\ reqs[c].resp.content_type = reqs[d].resp.content_type
            /\ reqs[c].resp.etag = reqs[d].resp.etag
            /\ reqs[c].resp.body = reqs[d].resp.body

\* C10: with a mount other than "/", a request outside the mount that is no
\* route of the application is answered with the index document (200,
\* text/html, its ETag and bytes) when index.html is embedded and with 404
\* "Not found" when it is not; no other embedded file is served there.
C10_OutsideMountServesIndex ==
    \A c \in Conns :
        (/\ Done(c) /\ path # <<SLASH>>
         /\ ~UnderMount(reqs[c].uri)
         /\ \A r \in OwnRoutes : r.pattern # reqs[c].uri) =>
            /\ FellBack(c)
            /\ HasIndex => /\ ServesIndex(reqs[c].resp)
                           /\ reqs[c].resp.content_type = "text/html"
            /\ ~HasIndex => IsNotFound(reqs[c].resp)

C10_Witness ==
    \E c \in Conns :
        /\ FellBack(c) /\ path = <<SLASH, "ui">>
        /\ reqs[c].uri = <<SLASH, "script", DOT, "js">>
        /\ Present(<<"script", DOT, "js">>) /\ HasIndex
        /\ reqs[c].resp.body = IndexBytes

====
